---- MODULE Spec2Model ----
(***************************************************************************)
(* Model of the DOCX translation pipeline: run.py (run_crew) and           *)
(* src/docx_preserve.py (extraction, batch planning, rewriting).           *)
(*                                                                         *)
(* Strings are sequences of one-character strings, so that split, strip    *)
(* and substring search are computed character by character.               *)
(***************************************************************************)
EXTENDS Integers, Sequences, FiniteSets, TLC

VARIABLES
    pc,                    \* position in run_crew / in the operation under check
    doc,                   \* the in-memory document handle (src_doc)
    doc0,                  \* history: the document as it was opened
    document_content,      \* run.py:115
    units,                 \* run.py:123
    max_tokens_per_batch,  \* run.py:134
    batch_size,            \* run.py:135
    i,                     \* run.py:142 loop offset
    attempt,               \* run.py:163
    translated_block,      \* run.py:164
    translated_map,        \* run.py:138
    backoff_seconds,       \* run.py:190 (whole seconds)
    events,                \* history: kickoff/sleep events of the current batch
    batches_done,          \* history: number of batches reconciled
    exhausted,             \* history: a batch used up all its attempts
    replace_calls,         \* history: calls of replace_text_in_document
    replace_arg,           \* history: the map handed to replace_text_in_document
    saved,                 \* which file out_doc.save wrote: "none", "output", "fallback"
    pieces                 \* history: the pieces the answered block was put together from

vars == <<pc, doc, doc0, document_content, units, max_tokens_per_batch,
          batch_size, i, attempt, translated_block, translated_map,
          backoff_seconds, events, batches_done, exhausted, replace_calls,
          replace_arg, saved, pieces>>

(***************************************************************************)
(* Bounds                                                                  *)
(***************************************************************************)
MaxRunParas == 4
MaxPieces == 4
MaxBatch == 3
MaxPlanUnits == 4
MaxBudget == 3
MaxDocParas == 2

(***************************************************************************)
(* Python string operations                                                *)
(***************************************************************************)
Min(a, b) == IF a < b THEN a ELSE b
Max(a, b) == IF a > b THEN a ELSE b

NL == "\n"
Whitespace == {" ", NL, "\t"}

\* s[k:k+len(sep)] == sep, k 1-based
MatchAt(s, sep, k) ==
    /\ k >= 1
    /\ k + Len(sep) - 1 <= Len(s)
    /\ SubSeq(s, k, k + Len(sep) - 1) = sep

\* str.find: the first position of sep in s (1-based), 0 when absent
Find(s, sep) ==
    LET hits == {k \in 1..Len(s) : MatchAt(s, sep, k)}
    IN IF hits = {} THEN 0 ELSE CHOOSE k \in hits : \A h \in hits : k <= h

\* sub in s
Contains(s, sub) == Find(s, sub) # 0

RECURSIVE split(_, _)
\* str.split(sep): non-overlapping occurrences, left to right
split(s, sep) ==
    LET k == Find(s, sep)
    IN IF k = 0 THEN <<s>>
       ELSE <<SubSeq(s, 1, k - 1)>> \o split(SubSeq(s, k + Len(sep), Len(s)), sep)

RECURSIVE lstrip(_)
lstrip(s) == IF s # <<>> /\ Head(s) \in Whitespace THEN lstrip(Tail(s)) ELSE s

RECURSIVE rstrip(_)
rstrip(s) ==
    IF s # <<>> /\ s[Len(s)] \in Whitespace THEN rstrip(SubSeq(s, 1, Len(s) - 1)) ELSE s

\* a strip that trims nothing
strip_identity(s) == s
\* str.strip()
strip(s) == rstrip(lstrip(s))

RECURSIVE join(_, _)
\* sep.join(parts)
join(parts, sep) ==
    IF parts = <<>> THEN <<>>
    ELSE IF Len(parts) = 1 THEN parts[1]
    ELSE parts[1] \o sep \o join(Tail(parts), sep)

RECURSIVE Concat(_)
\* ''.join(parts)
Concat(parts) == IF parts = <<>> THEN <<>> ELSE Head(parts) \o Concat(Tail(parts))

\* "--- UNIT BREAK ---"
UNIT_BREAK ==
    <<"-", "-", "-", " ", "U", "N", "I", "T", " ", "B", "R", "E", "A", "K", " ", "-", "-", "-">>
\* "\n\n--- UNIT BREAK ---\n\n"
BATCH_JOINER == <<NL, NL>> \o UNIT_BREAK \o <<NL, NL>>
\* "\n\n"
BLANK_LINE == <<NL, NL>>
\* "[Image of"
IMAGE_OF == <<"[", "I", "m", "a", "g", "e", " ", "o", "f">>

\* Python None for translated_block
None == <<"None">>

(***************************************************************************)
(* The document: body paragraphs, tables and the footnote store.           *)
(* A paragraph is the sequence of its runs; a run holds its w:t text       *)
(* elements and possibly a non-text element (a drawing, a footnoteRef).    *)
(***************************************************************************)
Run(ts, pic) == [t |-> ts, pic |-> pic]

\* run.text
RunText(r) == Concat(r.t)

\* Paragraph.text: the text of the runs, in order
ParaText(p) == Concat([k \in 1..Len(p) |-> RunText(p[k])])

\* TextUnit(path, text, type, footnote_id); footnote_id None is <<>>, an id n is <<n>>
TextUnit(path, text, type, footnote_id) ==
    [path |-> path, text |-> text, type |-> type, footnote_id |-> footnote_id]

\* src/docx_preserve.py:34, 43, 77: the unit is kept when its stripped text is non-empty
NonBlank(u) == strip(u.text) # <<>>

\* src/docx_preserve.py:32-35
paragraph_units(d) ==
    SelectSeq([k \in 1..Len(d.paragraphs) |->
                  TextUnit(<<k - 1>>, ParaText(d.paragraphs[k]), "paragraph", <<>>)],
              NonBlank)

\* src/docx_preserve.py:41-44, one cell
cell_units(cell, t, r, c) ==
    SelectSeq([k \in 1..Len(cell) |->
                  TextUnit(<<t - 1, r - 1, c - 1, k - 1>>, ParaText(cell[k]), "table_cell", <<>>)],
              NonBlank)

\* src/docx_preserve.py:38-44
table_units(d) ==
    Concat([t \in 1..Len(d.tables) |->
        Concat([r \in 1..Len(d.tables[t]) |->
            Concat([c \in 1..Len(d.tables[t][r]) |->
                cell_units(d.tables[t][r][c], t, r, c)])])])

\* src/docx_preserve.py:71-76: the joined w:t texts of a footnote paragraph, stripped
footnote_text(p) == strip(Concat([k \in 1..Len(p) |-> Concat(p[k].t)]))

\* src/docx_preserve.py:70-83, one footnote
footnote_para_units(fn) ==
    SelectSeq([k \in 1..Len(fn.paras) |->
                  TextUnit(<<"footnote", fn.id, k - 1>>, footnote_text(fn.paras[k]),
                           "footnote", <<fn.id>>)],
              LAMBDA u : u.text # <<>>)

\* src/docx_preserve.py:53-87
extract_footnotes(d) ==
    IF d.footnotes_part
    THEN Concat([f \in 1..Len(d.footnotes) |->
            IF d.footnotes[f].has_id THEN footnote_para_units(d.footnotes[f]) ELSE <<>>])
    ELSE <<>>

\* src/docx_preserve.py:27-50
extract_text_units(d) == paragraph_units(d) \o table_units(d) \o extract_footnotes(d)

\* run.py:99-106: the paragraphs without "[Image of", joined by newlines
read_docx(d) ==
    join(SelectSeq([k \in 1..Len(d.paragraphs) |-> ParaText(d.paragraphs[k])],
                   LAMBDA x : ~Contains(x, IMAGE_OF)),
         <<NL>>)

(***************************************************************************)
(* Batch planner                                                           *)
(***************************************************************************)
\* src/docx_preserve.py:152-154
estimate_tokens(text) == Len(text) \div 4

RECURSIVE sum_tokens(_)
\* sum(estimate_tokens(unit.text) for unit in units)
sum_tokens(us) ==
    IF us = <<>> THEN 0 ELSE estimate_tokens(Head(us).text) + sum_tokens(Tail(us))

\* Python a // b for b # 0 (floor division)
FloorDiv(a, b) == IF b > 0 THEN a \div b ELSE (0 - a) \div (0 - b)

\* src/docx_preserve.py:167 raises ZeroDivisionError
planner_raises(us, budget) ==
    /\ us # <<>>
    /\ sum_tokens(us) > budget
    /\ \/ budget = 0
       \/ FloorDiv(sum_tokens(us), budget) + 1 = 0

RECURSIVE shrink_batch(_, _, _)
\* src/docx_preserve.py:170-174
shrink_batch(us, budget, b) ==
    IF b > 1 /\ sum_tokens(SubSeq(us, 1, b)) > budget
    THEN shrink_batch(us, budget, Max(1, b - 1))
    ELSE b

\* a planner whose first estimate is not lower-bounded at 1
calculate_without_floor(us, budget) ==
    IF us = <<>> THEN 1
    ELSE IF sum_tokens(us) <= budget THEN Len(us)
    ELSE shrink_batch(us, budget,
            FloorDiv(Len(us), FloorDiv(sum_tokens(us), budget) + 1))

\* src/docx_preserve.py:157-176 (when it does not raise)
calculate_optimal_batch_size(us, budget) ==
    IF us = <<>> THEN 1
    ELSE IF sum_tokens(us) <= budget THEN Len(us)
    ELSE shrink_batch(us, budget,
            Max(1, FloorDiv(Len(us), FloorDiv(sum_tokens(us), budget) + 1)))

(***************************************************************************)
(* Response reconciliation (run.py:196-203)                                *)
(***************************************************************************)
\* [p.strip() for p in block.split(sep)]
stripped_parts(block, sep) ==
    LET raw == split(block, sep) IN [k \in 1..Len(raw) |-> strip(raw[k])]

\* run.py:196-199
reconcile_parts(batch, block) ==
    LET parts == stripped_parts(block, UNIT_BREAK)
    IN IF Len(parts) # Len(batch) THEN stripped_parts(block, BLANK_LINE) ELSE parts

\* an alignment that pairs only as many units as there are parts
reconcile_by_parts(batch, block) ==
    LET parts == reconcile_parts(batch, block)
    IN [j \in 1..Min(Len(batch), Len(parts)) |-> <<batch[j], parts[j]>>]

\* run.py:201-203: the pairs appended to translated_map for one batch
reconcile(batch, block) ==
    LET parts == reconcile_parts(batch, block)
    IN [j \in 1..Len(batch) |->
            <<batch[j], IF j <= Len(parts) THEN parts[j] ELSE block>>]

(***************************************************************************)
(* Document rewriter                                                       *)
(***************************************************************************)
\* src/docx_preserve.py:95-97, 103-105: every run removed, one run added
rewrite_paragraph(p, translated) == <<Run(<<translated>>, FALSE)>>

\* src/docx_preserve.py:130-131
blank_texts(p) ==
    [k \in 1..Len(p) |-> [p[k] EXCEPT !.t = [n \in 1..Len(p[k].t) |-> <<>>]]]

\* src/docx_preserve.py:127-146, one footnote paragraph
rewrite_footnote_paragraph(p, translated) ==
    LET q == blank_texts(p)
    IN IF Len(q) > 0
       THEN IF Len(q[1].t) > 0
            THEN [q EXCEPT ![1].t[1] = translated]
            ELSE q
       ELSE <<Run(<<translated>>, FALSE)>>

\* the first footnote element whose id equals the unit's, 0 when there is none
matching_footnote(d, unit) ==
    LET hits == {f \in 1..Len(d.footnotes) :
                    d.footnotes[f].has_id /\ <<d.footnotes[f].id>> = unit.footnote_id}
    IN IF hits = {} THEN 0 ELSE CHOOSE f \in hits : \A h \in hits : f <= h

\* src/docx_preserve.py:111-149
replace_footnote_text(d, unit, translated) ==
    IF ~d.footnotes_part THEN d
    ELSE LET f == matching_footnote(d, unit)
             k == unit.path[3] + 1
         IN IF f = 0 \/ k > Len(d.footnotes[f].paras) THEN d
            ELSE [d EXCEPT !.footnotes[f].paras[k] =
                      rewrite_footnote_paragraph(d.footnotes[f].paras[k], translated)]

\* a rewriter that takes the paragraph index of a body unit as one-based
replace_unit_one_based(d, unit, translated) ==
    IF unit.type = "paragraph" /\ Len(unit.path) = 1
    THEN [d EXCEPT !.paragraphs[Max(1, unit.path[1])] =
              rewrite_paragraph(d.paragraphs[Max(1, unit.path[1])], translated)]
    ELSE IF unit.type = "table_cell" /\ Len(unit.path) = 4
    THEN [d EXCEPT !.tables[unit.path[1] + 1][unit.path[2] + 1][unit.path[3] + 1][unit.path[4] + 1] =
              rewrite_paragraph(
                  d.tables[unit.path[1] + 1][unit.path[2] + 1][unit.path[3] + 1][unit.path[4] + 1],
                  translated)]
    ELSE IF unit.type = "footnote" /\ Len(unit.path) = 3
    THEN replace_footnote_text(d, unit, translated)
    ELSE d

\* src/docx_preserve.py:92-107, one pair of the map
replace_unit(d, unit, translated) ==
    IF unit.type = "paragraph" /\ Len(unit.path) = 1
    THEN [d EXCEPT !.paragraphs[unit.path[1] + 1] =
              rewrite_paragraph(d.paragraphs[unit.path[1] + 1], translated)]
    ELSE IF unit.type = "table_cell" /\ Len(unit.path) = 4
    THEN [d EXCEPT !.tables[unit.path[1] + 1][unit.path[2] + 1][unit.path[3] + 1][unit.path[4] + 1] =
              rewrite_paragraph(
                  d.tables[unit.path[1] + 1][unit.path[2] + 1][unit.path[3] + 1][unit.path[4] + 1],
                  translated)]
    ELSE IF unit.type = "footnote" /\ Len(unit.path) = 3
    THEN replace_footnote_text(d, unit, translated)
    ELSE d

RECURSIVE replace_text_in_document(_, _)
\* src/docx_preserve.py:90-108
replace_text_in_document(d, original_to_translated) ==
    IF original_to_translated = <<>> THEN d
    ELSE replace_text_in_document(
            replace_unit(d, Head(original_to_translated)[1], Head(original_to_translated)[2]),
            Tail(original_to_translated))

(***************************************************************************)
(* run_crew (run.py:97-224)                                                *)
(***************************************************************************)
\* a retry limit that is one too high
max_retries_one_more == 5 + 1
\* run.py:162
max_retries == 5

\* a paragraph with one text run
TextPara(text) == <<Run(<<text>>, FALSE)>>

\* the input documents of the run: body paragraphs only, blank or of four characters
RunParas == {TextPara(<<" ">>), TextPara(<<"a", "b", "c", "d">>)}

BodyDoc(ps) == [paragraphs |-> ps, tables |-> <<>>, footnotes |-> <<>>, footnotes_part |-> FALSE]

RunDocs == {BodyDoc(ps) : ps \in UNION {[1..n -> RunParas] : n \in 0..MaxRunParas}}

\* llm.max_tokens_per_batch of config.yaml
RunBudgets == 0..MaxBudget

\* what crew.kickoff() may answer: delimiters kept, delimiters replaced by blank
\* lines, no text at all
RunBlocks == {<<"X">> \o BATCH_JOINER \o <<"Y">>, <<"X", NL, NL, "Y">>, <<>>}

\* run.py:143
batch == SubSeq(units, i + 1, Min(i + batch_size, Len(units)))

InitCommon ==
    /\ document_content = <<>>
    /\ units = <<>>
    /\ batch_size = 0
    /\ i = 0
    /\ attempt = 0
    /\ translated_block = None
    /\ translated_map = <<>>
    /\ backoff_seconds = 0
    /\ events = <<>>
    /\ batches_done = 0
    /\ exhausted = FALSE
    /\ replace_calls = 0
    /\ replace_arg = <<>>
    /\ saved = "none"
    /\ pieces = <<>>

Init ==
    /\ pc = "read"
    /\ doc \in RunDocs
    /\ doc0 = doc
    /\ max_tokens_per_batch \in RunBudgets
    /\ InitCommon

\* run.py:115-123: read_docx and extract_text_units
ReadInput ==
    /\ pc = "read"
    /\ document_content' = read_docx(doc)
    /\ units' = extract_text_units(doc)
    /\ pc' = "plan"
    /\ UNCHANGED <<doc, doc0, max_tokens_per_batch, batch_size, i, attempt,
                   translated_block, translated_map, backoff_seconds, events,
                   batches_done, exhausted, replace_calls, replace_arg, saved, pieces>>

\* run.py:134-140: the batch size; a ZeroDivisionError of the planner ends the run
Plan ==
    /\ pc = "plan"
    /\ IF planner_raises(units, max_tokens_per_batch)
       THEN pc' = "raised" /\ UNCHANGED batch_size
       ELSE /\ pc' = "loop"
            /\ batch_size' = calculate_optimal_batch_size(units, max_tokens_per_batch)
    /\ i' = 0
    /\ translated_map' = <<>>
    /\ UNCHANGED <<doc, doc0, document_content, units, max_tokens_per_batch, attempt,
                   translated_block, backoff_seconds, events, batches_done,
                   exhausted, replace_calls, replace_arg, saved, pieces>>

\* run.py:142-165: the next batch is cut and its retry loop starts
BeginBatch ==
    /\ pc = "loop"
    /\ i < Len(units)
    /\ attempt' = 0
    /\ translated_block' = None
    /\ events' = <<>>
    /\ pc' = "try"
    /\ UNCHANGED <<doc, doc0, document_content, units, max_tokens_per_batch, batch_size,
                   i, translated_map, backoff_seconds, batches_done, exhausted,
                   replace_calls, replace_arg, saved, pieces>>

\* run.py:167-185, 196-203: crew.kickoff() answers; the block is reconciled and
\* the loop moves to the next batch
KickoffOk(block) ==
    /\ pc = "try"
    /\ attempt < max_retries
    /\ translated_block' = block
    /\ translated_map' = translated_map \o reconcile(batch, block)
    /\ i' = i + batch_size
    /\ events' = Append(events, "ok")
    /\ batches_done' = batches_done + 1
    /\ pc' = "loop"
    /\ UNCHANGED <<doc, doc0, document_content, units, max_tokens_per_batch, batch_size,
                   attempt, backoff_seconds, exhausted, replace_calls, replace_arg, saved, pieces>>

\* a retry loop that skips the batch after its last failure instead of re-raising
KickoffFailSkip ==
    /\ pc = "try"
    /\ attempt < max_retries
    /\ attempt' = attempt + 1
    /\ events' = Append(events, "fail")
    /\ IF attempt' >= max_retries
       THEN /\ pc' = "loop"
            /\ i' = i + batch_size
            /\ exhausted' = TRUE
            /\ UNCHANGED backoff_seconds
       ELSE /\ pc' = "sleep"
            /\ backoff_seconds' = Min(30, 2 ^ attempt')
            /\ UNCHANGED <<exhausted, i>>
    /\ UNCHANGED <<doc, doc0, document_content, units, max_tokens_per_batch, batch_size,
                   translated_block, translated_map, batches_done,
                   replace_calls, replace_arg, saved, pieces>>

\* run.py:186-194: crew.kickoff() raises; the fifth failure is re-raised
KickoffFail ==
    /\ pc = "try"
    /\ attempt < max_retries
    /\ attempt' = attempt + 1
    /\ events' = Append(events, "fail")
    /\ IF attempt' >= max_retries
       THEN /\ pc' = "raised"
            /\ exhausted' = TRUE
            /\ UNCHANGED backoff_seconds
       ELSE /\ pc' = "sleep"
            /\ backoff_seconds' = Min(30, 2 ^ attempt')
            /\ UNCHANGED exhausted
    /\ UNCHANGED <<doc, doc0, document_content, units, max_tokens_per_batch, batch_size,
                   i, translated_block, translated_map, batches_done,
                   replace_calls, replace_arg, saved, pieces>>

\* run.py:195: time.sleep(backoff_seconds), then the while loop tries again
Backoff ==
    /\ pc = "sleep"
    /\ events' = Append(events, "sleep")
    /\ pc' = "try"
    /\ UNCHANGED <<doc, doc0, document_content, units, max_tokens_per_batch, batch_size,
                   i, attempt, translated_block, translated_map, backoff_seconds,
                   batches_done, exhausted, replace_calls, replace_arg, saved, pieces>>

\* run.py:205-210: the loop is over; the document is rewritten from the whole map
Rewrite ==
    /\ pc = "loop"
    /\ i >= Len(units)
    /\ doc' = replace_text_in_document(doc, translated_map)
    /\ replace_calls' = replace_calls + 1
    /\ replace_arg' = translated_map
    /\ pc' = "save"
    /\ UNCHANGED <<doc0, document_content, units, max_tokens_per_batch, batch_size, i,
                   attempt, translated_block, translated_map, backoff_seconds, events,
                   batches_done, exhausted, saved, pieces>>

\* run.py:212-214
SaveOk ==
    /\ pc = "save"
    /\ saved' = "output"
    /\ pc' = "done"
    /\ UNCHANGED <<doc, doc0, document_content, units, max_tokens_per_batch, batch_size,
                   i, attempt, translated_block, translated_map, backoff_seconds, events,
                   batches_done, exhausted, replace_calls, replace_arg, pieces>>

\* run.py:215-221: PermissionError on the configured name
SavePermissionError ==
    /\ pc = "save"
    /\ pc' = "save_fallback"
    /\ UNCHANGED <<doc, doc0, document_content, units, max_tokens_per_batch, batch_size,
                   i, attempt, translated_block, translated_map, backoff_seconds, events,
                   batches_done, exhausted, replace_calls, replace_arg, saved, pieces>>

\* run.py:222-224
SaveFallbackOk ==
    /\ pc = "save_fallback"
    /\ saved' = "fallback"
    /\ pc' = "done"
    /\ UNCHANGED <<doc, doc0, document_content, units, max_tokens_per_batch, batch_size,
                   i, attempt, translated_block, translated_map, backoff_seconds, events,
                   batches_done, exhausted, replace_calls, replace_arg, pieces>>

\* run.py:212, 222: any other failure of save leaves run_crew
SaveRaises ==
    /\ pc \in {"save", "save_fallback"}
    /\ pc' = "raised"
    /\ UNCHANGED <<doc, doc0, document_content, units, max_tokens_per_batch, batch_size,
                   i, attempt, translated_block, translated_map, backoff_seconds, events,
                   batches_done, exhausted, replace_calls, replace_arg, saved, pieces>>

Next ==
    \/ ReadInput
    \/ Plan
    \/ BeginBatch
    \/ \E block \in RunBlocks : KickoffOk(block)
    \/ KickoffFail
    \/ Backoff
    \/ Rewrite
    \/ SaveOk
    \/ SavePermissionError
    \/ SaveFallbackOk
    \/ SaveRaises

Spec == Init /\ [][Next]_vars

(***************************************************************************)
(* Claims about run_crew, checked under Spec                               *)
(***************************************************************************)
\* the number of failed kickoffs among the first k events of the current batch
FailuresUpTo(k) == Cardinality({j \in 1..k : events[j] = "fail"})

\* the number of kickoffs attempted for the current batch
Kickoffs == Cardinality({k \in 1..Len(events) : events[k] \in {"ok", "fail"}})

\* the units of the map, in the map's order
MapUnits(m) == [k \in 1..Len(m) |-> m[k][1]]

\* C1: a batch sees at most 5 kickoffs; a successful kickoff is the last one of
\* its batch; failure 1..4 is followed by a backoff sleep and then by another
\* kickoff; failure 5 is re-raised at once, the batch neither retried nor skipped.
C1_RetryPolicy ==
    /\ Kickoffs <= 5
    /\ pc = "try" => Kickoffs < 5
    /\ \A k \in 1..Len(events) :
        /\ events[k] = "ok" => k = Len(events) /\ pc \notin {"try", "sleep"} /\ ~exhausted
        /\ (events[k] = "fail" /\ FailuresUpTo(k) < 5) =>
              IF k = Len(events) THEN pc = "sleep"
              ELSE /\ events[k + 1] = "sleep"
                   /\ IF k + 1 = Len(events) THEN pc = "try"
                      ELSE events[k + 2] \in {"ok", "fail"}
        /\ (events[k] = "fail" /\ FailuresUpTo(k) = 5) =>
              /\ k = Len(events)
              /\ pc = "raised"
              /\ i < Len(units)
              /\ Len(translated_map) = i

\* C1 witness: four failures, four sleeps, and the fifth kickoff succeeded
C1_Witness ==
    /\ Len(events) = 9
    /\ events[9] = "ok"
    /\ FailuresUpTo(9) = 4
    /\ pc = "loop"

\* C2: once a batch has used up its 5 attempts the run is over with the error:
\* the rewriter was never called, the document is untouched, no file was saved,
\* and nothing was translated after the failing batch.
C2_AbortOnExhaustion ==
    exhausted =>
        /\ pc = "raised"
        /\ replace_calls = 0
        /\ doc = doc0
        /\ saved = "none"
        /\ events # <<>> /\ events[Len(events)] = "fail"
        /\ Len(translated_map) = batches_done * batch_size
        /\ Len(translated_map) < Len(units)

\* C2 witness: the second batch is the one that fails five times, so the map is
\* partially built when the run aborts
C2_Witness ==
    /\ exhausted
    /\ batches_done = 1
    /\ translated_map # <<>>
    /\ pc = "raised"

\* C10 (state part): after k reconciled batches the map holds the first
\* min(k*B, n) units, in extraction order; replace_text_in_document is called at
\* most once, with a map of all n units.
C10_MapState ==
    /\ MapUnits(translated_map) =
          SubSeq(units, 1, Min(batches_done * batch_size, Len(units)))
    /\ replace_calls <= 1
    /\ replace_calls = 1 =>
          /\ replace_arg = translated_map
          /\ MapUnits(replace_arg) = units
    /\ pc \in {"save", "save_fallback", "done"} => replace_calls = 1

\* C10 (step part): the map only grows, by appending
C10_MapAppendOnly ==
    /\ Len(translated_map) <= Len(translated_map')
    /\ SubSeq(translated_map', 1, Len(translated_map)) = translated_map

\* C10: the translated map grows append-only, batch by batch, in extraction
\* order, and the rewriter is called once, with the complete map.
C10_MapGrowth == [](C10_MapState) /\ [][C10_MapAppendOnly]_vars

\* C10 witness: four units in two batches of two, reconciled on different paths,
\* and the rewriter was called
C10_Witness ==
    /\ Len(units) = 4
    /\ batch_size = 2
    /\ batches_done = 2
    /\ replace_calls = 1
    /\ translated_map[1][2] = <<"X">>
    /\ translated_map[4][2] = <<>>

(***************************************************************************)
(* The reconciler on its own: one batch of N units in its retry loop, and  *)
(* an answer put together from pieces.                                     *)
(***************************************************************************)
\* run.py:134, the default of llm.max_tokens_per_batch
default_max_tokens_per_batch == 2000

Pieces == {<<"a">>, <<" ">>, <<NL>>, BLANK_LINE, UNIT_BREAK, <<"-">>}

PieceSeqs == UNION {[1..n -> Pieces] : n \in 0..MaxPieces}

FourChars == <<"a", "b", "c", "d">>

InitReconcile ==
    /\ pc = "try"
    /\ pieces \in PieceSeqs
    /\ \E n \in 1..MaxBatch : doc = BodyDoc([k \in 1..n |-> TextPara(FourChars)])
    /\ doc0 = doc
    /\ document_content = read_docx(doc)
    /\ units = extract_text_units(doc)
    /\ max_tokens_per_batch = default_max_tokens_per_batch
    /\ batch_size = calculate_optimal_batch_size(units, max_tokens_per_batch)
    /\ i = 0
    /\ attempt = 0
    /\ translated_block = None
    /\ translated_map = <<>>
    /\ backoff_seconds = 0
    /\ events = <<>>
    /\ batches_done = 0
    /\ exhausted = FALSE
    /\ replace_calls = 0
    /\ replace_arg = <<>>
    /\ saved = "none"

NextReconcile == KickoffOk(Concat(pieces))

SpecReconcile == InitReconcile /\ [][NextReconcile]_vars

RECURSIVE SegmentsOf(_)
\* the segments of the answer, read off its pieces: a delimiter piece ends a segment
SegmentsOf(ps) ==
    LET marks == {k \in 1..Len(ps) : ps[k] = UNIT_BREAK}
    IN IF marks = {} THEN <<Concat(ps)>>
       ELSE LET k == CHOOSE m \in marks : \A h \in marks : m <= h
            IN <<Concat(SubSeq(ps, 1, k - 1))>> \o SegmentsOf(SubSeq(ps, k + 1, Len(ps)))

\* out is seg without its leading and trailing whitespace
IsTrimOf(out, seg) ==
    \E a, b \in 0..Len(seg) :
        /\ a + b <= Len(seg)
        /\ out = SubSeq(seg, a + 1, Len(seg) - b)
        /\ \A k \in 1..a : seg[k] \in Whitespace
        /\ \A k \in (Len(seg) - b + 1)..Len(seg) : seg[k] \in Whitespace
        /\ out # <<>> => out[1] \notin Whitespace /\ out[Len(out)] \notin Whitespace

\* C3: when the answer holds exactly N delimiter-separated segments, the batch
\* yields N pairs, the j-th pairing the j-th unit with the j-th segment trimmed.
C3_ExactPath ==
    (pc = "loop" /\ Len(SegmentsOf(pieces)) = Len(units)) =>
        /\ Len(translated_map) = Len(units)
        /\ \A j \in 1..Len(units) :
            /\ translated_map[j][1] = units[j]
            /\ IsTrimOf(translated_map[j][2], SegmentsOf(pieces)[j])

\* C3 witness: two units, two segments, the second one with whitespace around it
C3_Witness ==
    /\ pc = "loop"
    /\ Len(units) = 2
    /\ pieces = <<<<"a">>, UNIT_BREAK, <<" ">>, <<"-">>>>
    /\ translated_map[2][2] = <<"-">>

\* C4: when neither the delimiter split nor the blank-line split yields N
\* segments, every one of the N units still gets a non-empty translated string.
C4_DegradedNonEmpty ==
    (/\ pc = "loop"
     /\ Len(split(translated_block, UNIT_BREAK)) # Len(units)
     /\ Len(split(translated_block, BLANK_LINE)) # Len(units)) =>
        /\ Len(translated_map) = Len(units)
        /\ \A j \in 1..Len(units) : translated_map[j][2] # <<>>

(***************************************************************************)
(* The batch planner on its own: units of 1, 4 and 8 characters, budgets   *)
(* from below zero to MaxBudget.                                           *)
(***************************************************************************)
PlanParas == {TextPara(<<"a">>), TextPara(FourChars), TextPara(FourChars \o FourChars)}

PlanBudgets == (0 - 2)..MaxBudget

InitPlan ==
    /\ pc = "plan"
    /\ pieces = <<>>
    /\ doc \in {BodyDoc(ps) : ps \in UNION {[1..n -> PlanParas] : n \in 0..MaxPlanUnits}}
    /\ doc0 = doc
    /\ document_content = read_docx(doc)
    /\ units = extract_text_units(doc)
    /\ max_tokens_per_batch \in PlanBudgets
    /\ batch_size = 0
    /\ i = 0
    /\ attempt = 0
    /\ translated_block = None
    /\ translated_map = <<>>
    /\ backoff_seconds = 0
    /\ events = <<>>
    /\ batches_done = 0
    /\ exhausted = FALSE
    /\ replace_calls = 0
    /\ replace_arg = <<>>
    /\ saved = "none"

NextPlan == Plan

SpecPlan == InitPlan /\ [][NextPlan]_vars

\* C5 as stated: every returned batch size B has 1 <= B <= len(units), and
\* B = len(units) when the total estimate is within the budget.
C5_AsStated ==
    pc = "loop" =>
        /\ 1 <= batch_size
        /\ batch_size <= Len(units)
        /\ sum_tokens(units) <= max_tokens_per_batch => batch_size = Len(units)

\* C5 amended: for a non-empty unit sequence every returned batch size B has
\* 1 <= B <= len(units), and B = len(units) when the total estimate is within the
\* budget; for the empty sequence B is 1.
C5_NonEmptyUnits ==
    pc = "loop" =>
        IF units = <<>> THEN batch_size = 1
        ELSE /\ 1 <= batch_size
             /\ batch_size <= Len(units)
             /\ sum_tokens(units) <= max_tokens_per_batch => batch_size = Len(units)

\* C5 witness: an over-budget sequence for which the planner settled strictly
\* between 1 and len(units)
C5_Witness ==
    /\ pc = "loop"
    /\ sum_tokens(units) > max_tokens_per_batch
    /\ 1 < batch_size
    /\ batch_size < Len(units)

(***************************************************************************)
(* Extraction and rewriting on documents with runs of every kind, tables   *)
(* and footnotes; the translator answers every batch with well-formed,     *)
(* delimiter-separated text.                                               *)
(***************************************************************************)
TextRun(text) == Run(<<text>>, FALSE)

\* a run that carries only a non-text element: an inline image, a footnoteRef
PicRun == Run(<<>>, TRUE)

\* "[Image of a]"
Placeholder == IMAGE_OF \o <<" ", "a", "]">>

DocParas ==
    { <<>>,
      <<TextRun(<<" ">>)>>,
      <<TextRun(<<"a">>)>>,
      <<TextRun(<<"a">>), TextRun(<<"b">>)>>,
      <<TextRun(<<"a">>), PicRun>>,
      <<PicRun>>,
      <<TextRun(Placeholder)>> }

Footnote(has_id, id, paras) == [has_id |-> has_id, id |-> id, paras |-> paras]

\* the tables and the footnote store that come with the body
DocExtras ==
    { [tables |-> <<>>, footnotes |-> <<>>, footnotes_part |-> FALSE],
      [tables |-> << <<<< <<TextPara(<<"a">>)>> >>>> >>,
       footnotes |-> <<>>, footnotes_part |-> FALSE],
      [tables |-> << <<<< <<TextPara(<<"a">>)>>,
                          <<TextPara(<<" ">>), <<TextRun(<<"b">>), PicRun>>>> >>>> >>,
       footnotes |-> <<>>, footnotes_part |-> TRUE],
      [tables |-> <<>>,
       footnotes |-> <<Footnote(TRUE, 1, << <<PicRun, TextRun(<<" ", "a">>)>> >>)>>,
       footnotes_part |-> TRUE],
      [tables |-> <<>>,
       footnotes |-> <<Footnote(TRUE, 0, << <<PicRun>> >>),
                       Footnote(FALSE, 0, << <<TextRun(<<"a">>)>> >>),
                       Footnote(TRUE, 1, << <<TextRun(<<"a">>), TextRun(<<"b">>)>>,
                                            <<TextRun(<<" ">>)>> >>)>>,
       footnotes_part |-> TRUE],
      [tables |-> << <<<< <<TextPara(<<"a">>)>> >>, << <<TextPara(<<"b">>)>> >>>> >>,
       footnotes |-> <<Footnote(TRUE, 2, << <<TextRun(<<"a">>), PicRun>> >>)>>,
       footnotes_part |-> TRUE] }

Docs ==
    { [paragraphs |-> ps, tables |-> e.tables, footnotes |-> e.footnotes,
       footnotes_part |-> e.footnotes_part] :
         ps \in UNION {[1..n -> DocParas] : n \in 0..MaxDocParas}, e \in DocExtras }

InitDoc ==
    /\ pc = "read"
    /\ doc \in Docs
    /\ doc0 = doc
    /\ max_tokens_per_batch = default_max_tokens_per_batch
    /\ InitCommon

\* the translation of the k-th unit of the batch, in variant c
Translation(c, k) == IF (c + k) % 2 = 0 THEN <<"X">> ELSE <<"Y">>

\* an answer that holds one translation per unit, joined as the request was
WellFormedAnswer(c) == join([k \in 1..Len(batch) |-> Translation(c, k)], BATCH_JOINER)

NextDoc ==
    \/ ReadInput
    \/ Plan
    \/ BeginBatch
    \/ \E c \in {1, 2} : KickoffOk(WellFormedAnswer(c))
    \/ Rewrite

SpecDoc == InitDoc /\ [][NextDoc]_vars

\* the runs that carry a non-text element, over the whole document
PicCount(d) ==
    LET count(p) == Cardinality({k \in 1..Len(p) : p[k].pic})
        RECURSIVE sum(_)
        sum(ns) == IF ns = <<>> THEN 0 ELSE Head(ns) + sum(Tail(ns))
        paras(ps) == sum([k \in 1..Len(ps) |-> count(ps[k])])
    IN paras(d.paragraphs)
       + sum([t \in 1..Len(d.tables) |->
            sum([r \in 1..Len(d.tables[t]) |->
                sum([c \in 1..Len(d.tables[t][r]) |-> paras(d.tables[t][r][c])])])])
       + sum([f \in 1..Len(d.footnotes) |-> paras(d.footnotes[f].paras)])

\* the text of a footnote paragraph: its w:t texts, joined
FootnoteParaText(p) == Concat([k \in 1..Len(p) |-> Concat(p[k].t)])

\* the paths the map addresses
Addressed(m) == {m[k][1].path : k \in 1..Len(m)}

\* C6: the rewrite leaves the number of body paragraphs, the number of tables,
\* every table's rows and cells and every cell's and footnote's paragraph count
\* as they were, and a paragraph no unit addresses keeps its text.
C6_StructureKept ==
    pc = "save" =>
        /\ Len(doc.paragraphs) = Len(doc0.paragraphs)
        /\ \A k \in 1..Len(doc0.paragraphs) :
              <<k - 1>> \notin Addressed(replace_arg) =>
                  ParaText(doc.paragraphs[k]) = ParaText(doc0.paragraphs[k])
        /\ Len(doc.tables) = Len(doc0.tables)
        /\ \A t \in 1..Len(doc0.tables) :
            /\ Len(doc.tables[t]) = Len(doc0.tables[t])
            /\ \A r \in 1..Len(doc0.tables[t]) :
                /\ Len(doc.tables[t][r]) = Len(doc0.tables[t][r])
                /\ \A c \in 1..Len(doc0.tables[t][r]) :
                    /\ Len(doc.tables[t][r][c]) = Len(doc0.tables[t][r][c])
                    /\ \A k \in 1..Len(doc0.tables[t][r][c]) :
                          <<t - 1, r - 1, c - 1, k - 1>> \notin Addressed(replace_arg) =>
                              ParaText(doc.tables[t][r][c][k]) = ParaText(doc0.tables[t][r][c][k])
        /\ Len(doc.footnotes) = Len(doc0.footnotes)
        /\ \A f \in 1..Len(doc0.footnotes) :
            /\ Len(doc.footnotes[f].paras) = Len(doc0.footnotes[f].paras)
            /\ \A k \in 1..Len(doc0.footnotes[f].paras) :
                  (~doc0.footnotes[f].has_id
                     \/ <<"footnote", doc0.footnotes[f].id, k - 1>> \notin Addressed(replace_arg)) =>
                      FootnoteParaText(doc.footnotes[f].paras[k]) =
                          FootnoteParaText(doc0.footnotes[f].paras[k])

\* C6 witness: a blank paragraph between two translated ones is still blank
C6_Witness ==
    /\ pc = "save"
    /\ Len(doc0.paragraphs) = 2
    /\ doc0.paragraphs[1] = <<TextRun(<<" ">>)>>
    /\ doc.paragraphs[1] = <<TextRun(<<" ">>)>>
    /\ ParaText(doc0.paragraphs[2]) = <<"a", "b">>
    /\ ParaText(doc.paragraphs[2]) \in {<<"X">>, <<"Y">>}
    /\ Len(doc0.tables) = 1
    /\ Len(replace_arg) = 3

\* C7: every non-text element of the document is still there after the rewrite.
C7_NonTextKept ==
    pc = "save" => PicCount(doc) = PicCount(doc0)

\* C8: no extracted unit has a text that contains "[Image of".
C8_NoPlaceholderUnit ==
    pc # "read" => \A k \in 1..Len(units) : ~Contains(units[k].text, IMAGE_OF)

\* the paragraph a unit's path leads to
TargetParagraph(d, unit) ==
    IF unit.type = "paragraph" THEN d.paragraphs[unit.path[1] + 1]
    ELSE IF unit.type = "table_cell"
    THEN d.tables[unit.path[1] + 1][unit.path[2] + 1][unit.path[3] + 1][unit.path[4] + 1]
    ELSE LET f == CHOOSE g \in 1..Len(d.footnotes) :
                      d.footnotes[g].has_id /\ d.footnotes[g].id = unit.path[2]
         IN d.footnotes[f].paras[unit.path[3] + 1]

\* C9: after the rewrite the paragraph of every unit of the map carries exactly
\* the translated string, held by exactly one run.
C9_TargetCarriesTranslation ==
    pc = "save" =>
        \A k \in 1..Len(replace_arg) :
            LET p == TargetParagraph(doc, replace_arg[k][1])
            IN /\ FootnoteParaText(p) = replace_arg[k][2]
               /\ Cardinality({n \in 1..Len(p) : Concat(p[n].t) # <<>>}) = 1

====
